---------------------------- MODULE Spec2Model ----------------------------
(***************************************************************************)
(* SightBox: the naming engine (StandardNaming) and the ranking of OCR     *)
(* candidates (TesseractOCR.extract_text), both in                         *)
(* src/strategies/camera/opencv_camera.py.                                 *)
(*                                                                         *)
(* A Python str is a sequence of Unicode code points here, so that the     *)
(* regular expressions, strip(), replace(), lower() and slicing of the     *)
(* source act on characters as they do in the program.                     *)
(*                                                                         *)
(* Three specifications drive the three groups of pure functions:          *)
(*   SpecSanitize  sanitize_text on a text and on its own result           *)
(*   SpecNaming    generate_filename, validate_filename, parse_filename    *)
(*   SpecRank      extract_text on the rows reported for an image          *)
(***************************************************************************)
EXTENDS Integers, Sequences, FiniteSets, TLC

VARIABLES
    pc,            \* which operation of the driven component acted last
    text,          \* sanitize_text: the argument
    sanitized,     \* sanitize_text(text)
    resanitized,   \* sanitize_text(sanitize_text(text))
    user,          \* generate_filename: user
    ocr_content,   \* generate_filename: ocr_content
    timestamp,     \* generate_filename: timestamp, [year, month, day]
    filename,      \* generate_filename(user, ocr_content, timestamp)
    valid,         \* validate_filename(filename)
    components,    \* parse_filename(filename): FilenameComponents or None
    regenerated,   \* generate_filename(components.user, components.content, timestamp)
    data,          \* pytesseract.image_to_data rows: [text, conf, bbox]
    ocr_status,    \* how extract_text went: "ok", "unavailable", "error"
    results,       \* the list extract_text returned
    current_image, \* UIController.current_image: None or the frame last captured
    ocr_results,   \* UIController.ocr_results
    users,         \* UIController.users
    shots,         \* how many frames the camera has handed to capture_photo
    storage_calls, \* the save_image calls the storage strategy received
    files,         \* the images on disk, by relative path
    naming_calls,  \* how many calls the filename strategy received
    returned,      \* what the operation that acted last returned
    resource,      \* load_user_list, save_user_list: file_path
    names,         \* save_user_list: users
    fs,            \* the user list files, by path: [text, readable]
    write_status,  \* how the write of save_user_list went, "untried" if none was tried
    save_enabled,  \* MainWindow.save_button.isEnabled()
    text_edit,     \* OCRResultWidget.text_edit: the text offered for saving
    result_list,   \* OCRResultWidget.result_list: the texts of its items
    stack,         \* the handlers of MainWindow that wait in processEvents
    analyzed       \* the image ocr_results was made from, None before any

controllerVars == <<current_image, ocr_results, users, shots, storage_calls,
                    files, naming_calls, returned>>
\* the controller's fields and what its strategies hold and have been asked
heldVars == <<current_image, ocr_results, users, shots, storage_calls, files,
              naming_calls>>
usersVars == <<resource, names, fs, write_status>>
windowVars == <<save_enabled, text_edit, result_list, stack, analyzed>>
applicationVars == <<controllerVars, usersVars, windowVars>>

vars == <<pc, text, sanitized, resanitized, user, ocr_content, timestamp,
          filename, valid, components, regenerated, data, ocr_status, results,
          applicationVars>>

sanitizeVars == <<text, sanitized, resanitized>>
namingVars == <<user, ocr_content, timestamp, filename, valid, components, regenerated>>
rankVars == <<data, ocr_status, results>>

-----------------------------------------------------------------------------
(* Bounds of the model.                                                    *)

\* sanitize_text inputs: at most this many pieces of TextPieces
MaxTextParts == 4
\* generate_filename users: at most this many pieces of UserPieces
MaxUserParts == 1
\* generate_filename contents: at most this many pieces of ContentPieces
MaxContentParts == 2
\* image_to_data rows per image
MaxFragments == 3
\* users handed to save_user_list
MaxNames == 2
\* filenames found by a scan: at most this many pieces of ScanPieces
MaxScanParts == 3
\* frames the camera hands to capture_photo
MaxShots == 2
\* save_photo calls that get past the test for an image
MaxSaves == 2
\* capture_photo handlers of MainWindow inside one another
MaxNesting == 2

-----------------------------------------------------------------------------
(* Characters and strings.                                                 *)

\* Python None
None == [none |-> TRUE]

\* the empty str
EmptyStr == << >>

\* "Unknown"
Unknown == <<85, 110, 107, 110, 111, 119, 110>>
\* ".jpg"
DotJpgLower == <<46, 106, 112, 103>>
\* ".JPG"
DotJpgUpper == <<46, 74, 80, 71>>
\* "jpg"
JpgExtension == <<106, 112, 103>>
\* "_"
Underscore == <<95>>
\* " "
Space == <<32>>
\* "03.물품사진"
Prefix == <<48, 51, 46, 47932, 54408, 49324, 51652>>

\* the character class [<>:"/\|?*\x00-\x1f], in which \| is the bar alone
\* and the backslash is missing
IsForbiddenCharOneBackslash(ch) ==
    \/ ch \in {60, 62, 58, 34, 47, 124, 63, 42}
    \/ ch \in 0..31

\* the character class [<>:"/\\|?*\x00-\x1f]
IsForbiddenChar(ch) ==
    \/ ch \in {60, 62, 58, 34, 47, 92, 124, 63, 42}
    \/ ch \in 0..31

\* the character class \s of a str pattern, and str.isspace()
IsSpace(ch) ==
    \/ ch \in {9, 10, 11, 12, 13, 28, 29, 30, 31, 32, 133, 160, 5760}
    \/ ch \in 8192..8202
    \/ ch \in {8232, 8233, 8239, 8287, 12288}

\* the character class \d; the strings of this model hold ASCII digits only
IsDigit(ch) == ch \in 48..57

\* str.lower() on one character (ASCII letters; the other characters of
\* the model have no case)
LowerChar(ch) == IF ch \in 65..90 THEN ch + 32 ELSE ch

\* str.lower()
Lower(s) == [i \in 1..Len(s) |-> LowerChar(s[i])]

\* str.endswith(suffix)
EndsWith(s, suffix) ==
    /\ Len(suffix) <= Len(s)
    /\ SubSeq(s, Len(s) - Len(suffix) + 1, Len(s)) = suffix

\* s.startswith(sub, i - 1): sub occurs in s at index i
OccursAt(s, sub, i) ==
    /\ i + Len(sub) - 1 <= Len(s)
    /\ \A k \in 1..Len(sub) : s[i + k - 1] = sub[k]

\* sub in s
Contains(s, sub) == \E i \in 1..Len(s) : OccursAt(s, sub, i)

\* s[:n]
Prefixed(s, n) == IF Len(s) > n THEN SubSeq(s, 1, n) ELSE s

\* re.sub(forbidden_chars, '', text)
RemoveForbidden(s) == SelectSeq(s, LAMBDA ch : ~IsForbiddenChar(ch))

\* re.sub(r'\s+', ' ', s): every maximal run of whitespace becomes one space
CollapseWhitespace(s) ==
    LET first(i) == ~IsSpace(s[i]) \/ i = 1 \/ ~IsSpace(s[i - 1])
        idx == SelectSeq([i \in 1..Len(s) |-> i], first)
    IN  [k \in 1..Len(idx) |-> IF IsSpace(s[idx[k]]) THEN 32 ELSE s[idx[k]]]

\* str.strip(): from the first to the last character that is not whitespace
Strip(s) ==
    LET solid == {i \in 1..Len(s) : ~IsSpace(s[i])}
    IN  IF solid = {} THEN EmptyStr
        ELSE SubSeq(s,
                    CHOOSE i \in solid : \A j \in 1..(i - 1) : IsSpace(s[j]),
                    CHOOSE i \in solid : \A j \in (i + 1)..Len(s) : IsSpace(s[j]))

\* str.replace: of the places occ where old occurs, those that are replaced,
\* from index i on: the first one, then the first one after its end, ...
RECURSIVE ReplacedFrom(_, _, _)
ReplacedFrom(occ, width, i) ==
    LET later == {b \in occ : b >= i}
    IN  IF later = {} THEN {}
        ELSE LET b == CHOOSE x \in later : \A y \in later : x <= y
             IN  {b} \cup ReplacedFrom(occ, width, b + width)

\* str.replace(old, ''): the non-overlapping occurrences of old, found left
\* to right, are dropped
RemoveAll(s, old) ==
    LET occ == {i \in 1..Len(s) : OccursAt(s, old, i)}
        starts == ReplacedFrom(occ, Len(old), 1)
        stays(i) == \A b \in starts : i < b \/ i >= b + Len(old)
        idx == SelectSeq([i \in 1..Len(s) |-> i], stays)
    IN  [k \in 1..Len(idx) |-> s[idx[k]]]

\* the concatenation of a sequence of strings
RECURSIVE Concat(_)
Concat(parts) ==
    IF parts = << >> THEN EmptyStr ELSE Head(parts) \o Concat(Tail(parts))

\* sep.join(parts)
RECURSIVE Join(_, _)
Join(parts, sep) ==
    IF parts = << >> THEN EmptyStr
    ELSE IF Len(parts) = 1 THEN parts[1]
    ELSE parts[1] \o sep \o Join(Tail(parts), sep)

-----------------------------------------------------------------------------
(* StandardNaming.                                                         *)

\* self.max_content_length
max_content_length == 50

\* the length limit of validate_filename
MaxFilenameLength == 255

\* sanitize_text removing the forbidden characters last
sanitize_text_remove_last(s) ==
    IF s = EmptyStr THEN Unknown
    ELSE LET cleaned == RemoveForbidden(Strip(CollapseWhitespace(s)))
         IN  IF cleaned = EmptyStr THEN Unknown ELSE cleaned

\* sanitize_text without the fallback for an empty result
sanitize_text_no_fallback(s) ==
    IF s = EmptyStr THEN Unknown
    ELSE Strip(CollapseWhitespace(RemoveForbidden(s)))

\* StandardNaming.sanitize_text
sanitize_text(s) ==
    IF s = EmptyStr THEN Unknown
    ELSE LET stripped == Strip(CollapseWhitespace(RemoveForbidden(s)))
         IN  IF stripped = EmptyStr THEN Unknown ELSE stripped

\* two decimal digits, zero padded: a %y, %m or %d field of strftime
TwoDigits(n) == <<48 + (n \div 10), 48 + (n % 10)>>

\* timestamp.strftime("%y%m%d")
strftime_yymmdd(ts) ==
    TwoDigits(ts.year % 100) \o TwoDigits(ts.month) \o TwoDigits(ts.day)

\* generate_filename cutting the content before it is sanitized
generate_filename_cut_first(u, c, ts) ==
    Prefix \o Underscore \o strftime_yymmdd(ts) \o Underscore
        \o sanitize_text(u) \o Underscore
        \o sanitize_text(Prefixed(c, max_content_length)) \o DotJpgLower

\* StandardNaming.generate_filename
generate_filename(u, c, ts) ==
    LET date_str == strftime_yymmdd(ts)
        clean_user == sanitize_text(u)
        clean_content == sanitize_text(c)
        cut_content == IF Len(clean_content) > max_content_length
                       THEN SubSeq(clean_content, 1, max_content_length)
                       ELSE clean_content
    IN  Prefix \o Underscore \o date_str \o Underscore \o clean_user
            \o Underscore \o cut_content \o DotJpgLower

\* validate_filename testing the extension as it is written
validate_filename_exact_extension(name) ==
    /\ name # EmptyStr
    /\ Len(name) <= MaxFilenameLength
    /\ \A i \in 1..Len(name) : ~IsForbiddenChar(name[i])
    /\ EndsWith(name, DotJpgLower)

\* StandardNaming.validate_filename
validate_filename(name) ==
    /\ name # EmptyStr
    /\ Len(name) <= MaxFilenameLength
    /\ \A i \in 1..Len(name) : ~IsForbiddenChar(name[i])
    /\ EndsWith(Lower(name), DotJpgLower)

\* where the content group (.+)$ ends: at the end of the string, or before
\* a newline that ends the string
ContentEnd(s) == IF s # EmptyStr /\ s[Len(s)] = 10 THEN Len(s) - 1 ELSE Len(s)

\* the first underscore of s at index i or later, Len(s) + 1 if none
FirstUnderscoreFrom(s, i) ==
    LET at == {q \in i..Len(s) : s[q] = 95}
    IN  IF at = {} THEN Len(s) + 1 ELSE CHOOSE q \in at : \A r \in at : q <= r

\* ^(.+?)_(\d{6})_([^_]+)_(.+)$ matches s with a first group of p characters
MatchesWithPrefix(s, p) ==
    /\ p >= 1
    /\ p + 8 <= Len(s)
    /\ s[p + 1] = 95
    /\ \A i \in (p + 2)..(p + 7) : IsDigit(s[i])
    /\ s[p + 8] = 95
    /\ \A i \in 1..p : s[i] # 10
    /\ LET q == FirstUnderscoreFrom(s, p + 9)
       IN  /\ q > p + 9
           /\ q <= Len(s)
           /\ q + 1 <= ContentEnd(s)
           /\ \A i \in (q + 1)..ContentEnd(s) : s[i] # 10

\* the groups of the match whose first group has p characters
MatchGroups(s, p) ==
    LET q == FirstUnderscoreFrom(s, p + 9)
    IN  [prefix |-> SubSeq(s, 1, p),
         date_str |-> SubSeq(s, p + 2, p + 7),
         user |-> SubSeq(s, p + 9, q - 1),
         content |-> SubSeq(s, q + 1, ContentEnd(s)),
         extension |-> JpgExtension]

\* StandardNaming.parse_filename
parse_filename(name) ==
    LET name_without_ext == RemoveAll(RemoveAll(name, DotJpgLower), DotJpgUpper)
        fits == {p \in 1..Len(name_without_ext) :
                    MatchesWithPrefix(name_without_ext, p)}
    IN  IF fits = {} THEN None
        ELSE MatchGroups(name_without_ext,
                         CHOOSE p \in fits : \A r \in fits : p <= r)

-----------------------------------------------------------------------------
(* TesseractOCR.extract_text.  A confidence is a float in the program; here *)
(* it is the exact fraction [num, den] in lowest terms, so that the mean   *)
(* of integer confidences is exact and two equal confidences are equal.    *)

\* the confidence a fragment must exceed
ConfidenceFloor == 30

RECURSIVE GCD(_, _)
GCD(a, b) == IF b = 0 THEN a ELSE GCD(b, a % b)

\* num / den, for den > 0 and num >= 0
Fraction(num, den) ==
    LET g == GCD(num, den) IN [num |-> num \div g, den |-> den \div g]

\* float(conf) of an integer conf
Whole(n) == [num |-> n, den |-> 1]

\* a < b on confidences
Less(a, b) == a.num * b.den < b.num * a.den

\* sum(...) of a sequence of integers
RECURSIVE Sum(_)
Sum(ns) == IF ns = << >> THEN 0 ELSE Head(ns) + Sum(Tail(ns))

\* OCRResult.__init__
OCRResult(t, confidence, bbox) ==
    [text |-> Strip(t), confidence |-> confidence, bbox |-> bbox]

\* list.sort(key=lambda x: x.confidence, reverse=True) that puts equal
\* confidences in the reverse of their order
SortReversingTies(rs) ==
    LET place(i) == Cardinality({j \in 1..Len(rs) :
                         \/ Less(rs[i].confidence, rs[j].confidence)
                         \/ rs[j].confidence = rs[i].confidence /\ j > i}) + 1
    IN  [k \in 1..Len(rs) |-> rs[CHOOSE i \in 1..Len(rs) : place(i) = k]]

\* list.sort(key=lambda x: x.confidence, reverse=True): by confidence,
\* highest first; the sort is stable, equal confidences keep their order
SortByConfidence(rs) ==
    LET place(i) == Cardinality({j \in 1..Len(rs) :
                         \/ Less(rs[i].confidence, rs[j].confidence)
                         \/ rs[j].confidence = rs[i].confidence /\ j < i}) + 1
    IN  [k \in 1..Len(rs) |-> rs[CHOOSE i \in 1..Len(rs) : place(i) = k]]

\* the loop of extract_text with >= for >
KeptRowsFromFloor(rows) ==
    SelectSeq(rows, LAMBDA row :
        Strip(row.text) # EmptyStr /\ row.conf >= ConfidenceFloor)

\* the loop of extract_text: the rows that get a result of their own
KeptRows(rows) ==
    SelectSeq(rows, LAMBDA row :
        Strip(row.text) # EmptyStr /\ row.conf > ConfidenceFloor)

\* the full-text result averaging over every row, kept or not
FullResultOverAllRows(rows) ==
    LET kept == KeptRows(rows)
        texts == [i \in 1..Len(kept) |-> Strip(kept[i].text)]
    IN  OCRResult(Join(texts, Space),
                  Fraction(Sum([i \in 1..Len(rows) |-> rows[i].conf]), Len(rows)),
                  << >>)

\* the result for the whole text: the kept texts joined, the mean confidence
FullResult(rows) ==
    LET kept == KeptRows(rows)
        texts == [i \in 1..Len(kept) |-> Strip(kept[i].text)]
    IN  OCRResult(Join(texts, Space),
                  Fraction(Sum([i \in 1..Len(kept) |-> kept[i].conf]), Len(kept)),
                  << >>)

\* the results of extract_text before they are sorted
Unsorted(rows) ==
    LET kept == KeptRows(rows)
        each == [i \in 1..Len(kept) |->
                    OCRResult(Strip(kept[i].text), Whole(kept[i].conf), kept[i].bbox)]
    IN  IF kept # << >> THEN <<FullResult(rows)>> \o each ELSE each

\* extract_text from the rows of image_to_data on
rank(rows) == SortByConfidence(Unsorted(rows))

\* TesseractOCR.extract_text: nothing when the engine is not available or
\* the recognition raises
extract_text(rows, status) == IF status = "ok" THEN rank(rows) ELSE << >>

-----------------------------------------------------------------------------
(* FileUtils: the user list.                                               *)

\* ["김철수", "이영희", "박민수", "최은정"]
DefaultUsers ==
    <<<<44608, 52384, 49688>>, <<51060, 50689, 55148>>,
      <<48149, 48124, 49688>>, <<52572, 51008, 51221>>>>

\* ["기본사용자"]
FallbackUsers == <<<<44592, 48376, 49324, 50857, 51088>>>>

\* "config/user_list.txt", the default file_path
DefaultPath ==
    <<99, 111, 110, 102, 105, 103, 47, 117, 115, 101, 114, 95, 108, 105, 115,
      116, 46, 116, 120, 116>>

\* "# 사용자 목록 파일\n" and "# 한 줄에 한 사용자씩 작성하세요\n\n"
HeaderText ==
    <<35, 32, 49324, 50857, 51088, 32, 47785, 47197, 32, 54028, 51068, 10>>
    \o <<35, 32, 54620, 32, 51460, 50640, 32, 54620, 32, 49324, 50857, 51088,
          50473, 32, 51089, 49457, 54616, 49464, 50836, 10, 10>>

\* os.path.dirname(path): what comes before the last "/"
dirname(path) ==
    LET at == {i \in 1..Len(path) : path[i] = 47}
    IN  IF at = {} THEN EmptyStr
        ELSE SubSeq(path, 1, (CHOOSE i \in at : \A j \in at : j <= i) - 1)

\* what save_user_list writes: the header, then f"{user}\n" for each user
FileText(us) == HeaderText \o Concat([i \in 1..Len(us) |-> us[i] \o <<10>>])

\* for line in f: the text cut at its line breaks; a text file read with
\* universal newlines ends a line at "\n", at "\r" and at "\r\n"
Lines(t) ==
    LET breaks == {i \in 1..Len(t) : t[i] \in {10, 13}}
        starts == ({1} \cup {i + 1 : i \in breaks}) \cap 1..Len(t)
        ordered == SelectSeq([i \in 1..Len(t) |-> i], LAMBDA i : i \in starts)
        end(b) == LET later == {i \in breaks : i >= b}
                  IN  IF later = {} THEN Len(t)
                      ELSE (CHOOSE i \in later : \A j \in later : i <= j) - 1
    IN  [k \in 1..Len(ordered) |-> SubSeq(t, ordered[k], end(ordered[k]))]

\* the loop of load_user_list that keeps the comment lines
ReadUsersKeepingComments(lines) ==
    LET stripped == [k \in 1..Len(lines) |-> Strip(lines[k])]
    IN  SelectSeq(stripped, LAMBDA u : u # EmptyStr)

\* the loop of load_user_list: line.strip() of every line, but for the
\* empty ones and those that start with "#"
ReadUsers(lines) ==
    LET stripped == [k \in 1..Len(lines) |-> Strip(lines[k])]
    IN  SelectSeq(stripped, LAMBDA u : u # EmptyStr /\ u[1] # 35)

\* reading a file with an except clause that keeps the names read so far
ReadUserFileKeepingNames(file, k) ==
    IF file.readable THEN ReadUsers(Lines(file.text))
    ELSE ReadUsers(SubSeq(Lines(file.text), 1, k))

\* the users of load_user_list when the file exists; a file that is not
\* readable raises at open, or in the loop after k lines, and the except
\* clause puts ["기본사용자"] in place of the names read so far
ReadUserFile(file, k) ==
    IF file.readable THEN ReadUsers(Lines(file.text)) ELSE FallbackUsers

\* how the write of save_user_list goes: done; open raises and the file is
\* as it was; a write raises and the file holds the header only
WriteOutcomes == {"written", "open_fails", "write_fails"}

\* FileUtils.save_user_list but for what it returns: os.makedirs raises on
\* the empty dirname of a path without a directory, before anything is
\* opened
write_user_list(us, path, outcome) ==
    IF dirname(path) = EmptyStr
    THEN /\ write_status' = "untried"
         /\ fs' = fs
    ELSE /\ write_status' = outcome
         /\ fs' = CASE outcome = "written" ->
                        (path :> [text |-> FileText(us), readable |-> TRUE]) @@ fs
                   [] outcome = "open_fails" -> fs
                   [] outcome = "write_fails" ->
                        (path :> [text |-> HeaderText, readable |-> TRUE]) @@ fs

\* what save_user_list returns
save_user_list_returns(path, outcome) ==
    dirname(path) # EmptyStr /\ outcome = "written"

\* FileUtils.load_user_list but for the value it returns: a file that is
\* missing is written with the default users
load_user_list_writes(path, outcome) ==
    IF path \in DOMAIN fs
    THEN fs' = fs /\ write_status' = "untried"
    ELSE write_user_list(DefaultUsers, path, outcome)

\* what load_user_list returns
load_user_list(path, k) ==
    LET us == IF path \in DOMAIN fs THEN ReadUserFile(fs[path], k)
              ELSE DefaultUsers
    IN  IF us # << >> THEN us ELSE FallbackUsers

-----------------------------------------------------------------------------
(* UIController and its camera, OCR, storage and filename strategies.      *)

\* "/"
Slash == <<47>>

\* an argument that is not a str (an int, say): re.sub raises TypeError on
\* it; it is written as a sequence no str is, one with a negative code point
NotAString == <<-1>>

\* isinstance(v, str)
IsStr(v) == \A i \in 1..Len(v) : v[i] >= 0

\* a value a method returned; None, a record too, is Python's None
Returned(v) == [value |-> v]

\* an exception that left the method instead of a value
Escaped == [exception |-> TRUE]

\* StandardNaming.generate_folder_name: timestamp.strftime("%y년 %m월")
generate_folder_name(ts) ==
    TwoDigits(ts.year % 100) \o <<45380, 32>> \o TwoDigits(ts.month) \o <<50900>>

\* the clock a few days later: the first day of the next month once the
\* month is nearly over
LaterClock(ts) ==
    IF ts.day < 28 THEN [ts EXCEPT !.day = @ + 3]
    ELSE IF ts.month < 12 THEN [ts EXCEPT !.month = @ + 1, !.day = 1]
    ELSE [year |-> ts.year + 1, month |-> 1, day |-> 1]

\* the path of save_photo with the folder named from a second reading of
\* the clock
file_path_second_clock(u, c, ts) ==
    generate_folder_name(LaterClock(ts)) \o Slash \o generate_filename(u, c, ts)

\* save_photo: f"{folder_name}/{filename}", both from the one timestamp
file_path(u, c, ts) ==
    generate_folder_name(ts) \o Slash \o generate_filename(u, c, ts)

\* StorageResult.__init__
StorageResult(success, path) == [success |-> success, file_path |-> path]

\* how a save_image call ends: the image is written; the write fails and a
\* StorageResult says so; the storage strategy raises
StorageOutcomes == {"saved", "failed", "raised"}

\* StorageStrategy.save_image, as DropboxLocal does it: cv2.imwrite puts the
\* image at the path, over what was there
save_image(image, path, outcome) ==
    LET result == CASE outcome = "saved" -> StorageResult(TRUE, path)
                    [] outcome = "failed" -> StorageResult(FALSE, None)
                    [] outcome = "raised" -> None
    IN  /\ storage_calls' =
              Append(storage_calls,
                     [image |-> image, file_path |-> path, result |-> result])
        /\ files' = IF outcome = "saved" THEN (path :> image) @@ files ELSE files

\* the result of the save_image call made last
LastResult(calls) == calls[Len(calls)].result

\* UIController.capture_photo, the camera handing back frame
capture_photo(frame) ==
    /\ current_image' = IF frame # None THEN frame ELSE current_image
    /\ shots' = IF frame # None THEN shots + 1 ELSE shots
    /\ returned' = Returned(frame # None)
    /\ UNCHANGED <<ocr_results, users, storage_calls, files, naming_calls>>

\* UIController.analyze_image_ocr
analyze_image_ocr(status) ==
    /\ ocr_results' = IF current_image = None THEN ocr_results
                      ELSE extract_text(current_image.rows, status)
    /\ returned' = IF current_image = None THEN Returned(<< >>)
                   ELSE Returned(extract_text(current_image.rows, status))
    /\ UNCHANGED <<current_image, users, shots, storage_calls, files, naming_calls>>

\* an except clause that raises the exception again
SavePhotoReraise == Escaped

\* what the except clause of save_photo returns
SavePhotoExcept == Returned(FALSE)

\* the try statement of save_photo: generate_filename raises on an argument
\* that is not a str; save_image returns a StorageResult or raises
save_photo_try(u, c, ts, outcome) ==
    IF ~IsStr(u) \/ ~IsStr(c)
    THEN /\ naming_calls' = naming_calls + 1
         /\ returned' = SavePhotoExcept
         /\ UNCHANGED <<timestamp, filename, storage_calls, files>>
    ELSE /\ timestamp' = ts
         /\ filename' = generate_filename(u, c, ts)
         /\ naming_calls' = naming_calls + 2
         /\ save_image(current_image, file_path(u, c, ts), outcome)
         /\ returned' = IF outcome = "raised" THEN SavePhotoExcept
                        ELSE Returned(LastResult(storage_calls').success)

\* save_photo without its test for an image
save_photo_unguarded(u, c, ts, outcome) ==
    /\ save_photo_try(u, c, ts, outcome)
    /\ UNCHANGED <<current_image, ocr_results, users, shots>>

\* UIController.save_photo; ts is what datetime.now() returns
save_photo(u, c, ts, outcome) ==
    /\ IF current_image = None
       THEN /\ returned' = Returned(FALSE)
            /\ UNCHANGED <<timestamp, filename, storage_calls, files, naming_calls>>
       ELSE save_photo_try(u, c, ts, outcome)
    /\ UNCHANGED <<current_image, ocr_results, users, shots>>

-----------------------------------------------------------------------------
(* OCRResultWidget and MainWindow.  The status label, which only            *)
(* update_camera reads, and the camera view are left out.                  *)

\* "NoText"
NoText == <<78, 111, 84, 101, 120, 116>>

\* the decimal digits of a natural number
RECURSIVE Digits(_)
Digits(n) == IF n < 10 THEN <<48 + n>> ELSE Digits(n \div 10) \o <<48 + (n % 10)>>

\* f"{confidence:.1f}"; the confidences of the model are whole or halves
\* of tenths, which the format leaves exact
ConfidenceText(c) ==
    Digits(c.num \div c.den) \o <<46>> \o <<48 + (((c.num * 10) \div c.den) % 10)>>

\* update_results: f"[{result.confidence:.1f}%] {result.text}"
display_text(result) ==
    <<91>> \o ConfidenceText(result.confidence) \o <<37, 93, 32>> \o result.text

\* on_result_selected: text.split("] ", 1)[1] when "] " is in the text,
\* None when it is not and the text field is left alone
actual_text(item) ==
    LET at == {i \in 1..Len(item) : OccursAt(item, <<93, 32>>, i)}
    IN  IF at = {} THEN None
        ELSE SubSeq(item, (CHOOSE i \in at : \A j \in at : i <= j) + 2, Len(item))

\* OCRResultWidget.update_results
update_results(rs) ==
    /\ result_list' = [i \in 1..Len(rs) |-> display_text(rs[i])]
    /\ text_edit' = IF rs # << >> THEN rs[1].text ELSE text_edit

\* OCRResultWidget.get_selected_text
get_selected_text == Strip(text_edit)

\* MainWindow.capture_photo up to QApplication.processEvents(), where the
\* handler waits while the events that are pending are handled; a capture
\* that failed shows a message and returns
capture_photo_begins(frame) ==
    /\ capture_photo(frame)
    /\ stack' = IF frame # None THEN Append(stack, "capture_photo") ELSE stack
    /\ UNCHANGED <<save_enabled, text_edit, result_list, analyzed>>

\* MainWindow.capture_photo from the return of processEvents on
capture_photo_resumes(status) ==
    /\ analyze_image_ocr(status)
    /\ analyzed' = current_image
    /\ update_results(ocr_results')
    /\ save_enabled' = TRUE
    /\ stack' = SubSeq(stack, 1, Len(stack) - 1)

\* MainWindow.save_photo; u is user_combo.currentText(), confirmed the
\* operator's answer to the question about an empty content
window_save_photo(u, confirmed, ts, outcome) ==
    LET selected == get_selected_text
        content == IF selected = EmptyStr THEN NoText ELSE selected
    IN  IF u = EmptyStr \/ (selected = EmptyStr /\ ~confirmed)
        THEN UNCHANGED <<controllerVars, windowVars, user, ocr_content,
                         timestamp, filename>>
        ELSE /\ save_photo(u, content, ts, outcome)
             /\ user' = u
             /\ ocr_content' = content
             /\ save_enabled' = (save_enabled /\ returned' # Returned(TRUE))
             /\ result_list' = IF returned' = Returned(TRUE) THEN << >>
                               ELSE result_list
             /\ text_edit' = IF returned' = Returned(TRUE) THEN EmptyStr
                             ELSE text_edit
             /\ UNCHANGED <<stack, analyzed>>

-----------------------------------------------------------------------------
(* The inputs the operations are driven with.                              *)

\* n times the character ch
Repeat(ch, n) == [i \in 1..n |-> ch]

\* the strings made of at most n pieces
StringsOf(pieces, n) ==
    {Concat(ps) : ps \in UNION {[1..k -> pieces] : k \in 0..n}}

\* "a", " ", a tab, a no-break space, "?", "Unknown"
TextPieces == {<<97>>, Space, <<9>>, <<160>>, <<63>>, Unknown}

\* "김철수"
UserKim == <<44608, 52384, 49688>>
\* "볼트 M8"
ContentBolt == <<48380, 53944, 32, 77, 56>>

\* "김철수", "_", ".jpg", a name longer than a filename may be
UserPieces ==
    {UserKim, Underscore, DotJpgLower, Repeat(97, MaxFilenameLength + 1)}

\* a word that "볼트 M8" extends just past the content limit, so that the
\* cut falls right after the space
LongWord == Repeat(97, max_content_length - 3)

\* "볼트 M8", "_", " ", "?", ".jpg", ".JPG", LongWord
ContentPieces ==
    {ContentBolt, Underscore, Space, <<63>>, DotJpgLower, DotJpgUpper, LongWord}

\* 2024-12-05 and 2000-01-31
Timestamps ==
    {[year |-> 2024, month |-> 12, day |-> 5],
     [year |-> 2000, month |-> 1, day |-> 31]}

\* the state of the components that are not driven
IdleSanitize == text = EmptyStr /\ sanitized = None /\ resanitized = None

IdleNaming ==
    /\ user = EmptyStr
    /\ ocr_content = EmptyStr
    /\ timestamp = None
    /\ filename = None
    /\ valid = None
    /\ components = None
    /\ regenerated = None

IdleRank == data = << >> /\ ocr_status = None /\ results = None

IdleController ==
    /\ current_image = None
    /\ ocr_results = << >>
    /\ users = << >>
    /\ shots = 0
    /\ storage_calls = << >>
    /\ files = << >>
    /\ naming_calls = 0
    /\ returned = None

IdleUsers ==
    /\ resource = EmptyStr
    /\ names = << >>
    /\ fs = << >>
    /\ write_status = "untried"

IdleWindow ==
    /\ save_enabled = FALSE
    /\ text_edit = EmptyStr
    /\ result_list = << >>
    /\ stack = << >>
    /\ analyzed = None

IdleApplication == IdleController /\ IdleUsers /\ IdleWindow

-----------------------------------------------------------------------------
(* sanitize_text, applied to a text and to its own result.                 *)

InitSanitize ==
    /\ pc = "start"
    /\ text \in StringsOf(TextPieces, MaxTextParts)
    /\ sanitized = None
    /\ resanitized = None
    /\ IdleNaming
    /\ IdleRank
    /\ IdleApplication

SanitizeText ==
    /\ pc = "start"
    /\ sanitized' = sanitize_text(text)
    /\ pc' = "sanitized"
    /\ UNCHANGED <<text, resanitized, namingVars, rankVars, applicationVars>>

SanitizeAgain ==
    /\ pc = "sanitized"
    /\ resanitized' = sanitize_text(sanitized)
    /\ pc' = "resanitized"
    /\ UNCHANGED <<text, sanitized, namingVars, rankVars, applicationVars>>

NextSanitize == SanitizeText \/ SanitizeAgain

SpecSanitize == InitSanitize /\ [][NextSanitize]_vars

-----------------------------------------------------------------------------
(* generate_filename, then validate_filename and parse_filename on its     *)
(* result, then generate_filename on the parsed components.                *)

InitNaming ==
    /\ pc = "start"
    /\ user \in StringsOf(UserPieces, MaxUserParts)
    /\ ocr_content \in StringsOf(ContentPieces, MaxContentParts)
    /\ timestamp \in Timestamps
    /\ filename = None
    /\ valid = None
    /\ components = None
    /\ regenerated = None
    /\ IdleSanitize
    /\ IdleRank
    /\ IdleApplication

GenerateFilename ==
    /\ pc = "start"
    /\ filename' = generate_filename(user, ocr_content, timestamp)
    /\ pc' = "generated"
    /\ UNCHANGED <<user, ocr_content, timestamp, valid, components, regenerated,
                   sanitizeVars, rankVars, applicationVars>>

ValidateFilename ==
    /\ pc = "generated"
    /\ valid' = validate_filename(filename)
    /\ pc' = "validated"
    /\ UNCHANGED <<user, ocr_content, timestamp, filename, components, regenerated,
                   sanitizeVars, rankVars, applicationVars>>

ParseFilename ==
    /\ pc = "validated"
    /\ components' = parse_filename(filename)
    /\ pc' = "parsed"
    /\ UNCHANGED <<user, ocr_content, timestamp, filename, valid, regenerated,
                   sanitizeVars, rankVars, applicationVars>>

\* components.user and components.content exist only when the parse matched
RegenerateFilename ==
    /\ pc = "parsed"
    /\ components # None
    /\ regenerated' = generate_filename(components.user, components.content, timestamp)
    /\ pc' = "regenerated"
    /\ UNCHANGED <<user, ocr_content, timestamp, filename, valid, components,
                   sanitizeVars, rankVars, applicationVars>>

NextNaming ==
    GenerateFilename \/ ValidateFilename \/ ParseFilename \/ RegenerateFilename

SpecNaming == InitNaming /\ [][NextNaming]_vars

-----------------------------------------------------------------------------
(* validate_filename and parse_filename on the filenames a scan of a       *)
(* directory finds, whatever wrote them.                                   *)

\* "p_12345", "6_u_c", "6_u_", "_u_", ".jpg", ".JPG", "?", a tab, and a word
\* that ".jpg" brings to the longest length a filename may have
ScanPieces ==
    {<<112, 95, 49, 50, 51, 52, 53>>, <<54, 95, 117, 95, 99>>,
     <<54, 95, 117, 95>>, <<95, 117, 95>>, DotJpgLower, DotJpgUpper, <<63>>,
     <<9>>, Repeat(97, MaxFilenameLength - Len(DotJpgLower))}

InitScan ==
    /\ pc = "generated"
    /\ filename \in StringsOf(ScanPieces, MaxScanParts)
    /\ user = EmptyStr
    /\ ocr_content = EmptyStr
    /\ timestamp = None
    /\ valid = None
    /\ components = None
    /\ regenerated = None
    /\ IdleSanitize
    /\ IdleRank
    /\ IdleApplication

NextScan == ValidateFilename \/ ParseFilename

SpecScan == InitScan /\ [][NextScan]_vars

-----------------------------------------------------------------------------
(* extract_text on the rows the engine reports for an image.               *)

\* "  ", "ABC123", " wrench "
FragmentTexts ==
    {<<32, 32>>, <<65, 66, 67, 49, 50, 51>>,
     <<32, 119, 114, 101, 110, 99, 104, 32>>}

\* the confidences the engine reports
Confidences == {30, 45, 92}

\* the i-th word of a line: [left, top, width, height]
BoxOf(i) == <<10 * i, 0, 10, 10>>

\* the rows of image_to_data: the text, the conf and the box of each
RowsOf(f) ==
    [i \in DOMAIN f |-> [text |-> f[i][1], conf |-> f[i][2], bbox |-> BoxOf(i)]]

DataSets ==
    UNION {{RowsOf(f) : f \in [1..k -> FragmentTexts \X Confidences]} :
              k \in 0..MaxFragments}

OcrStatuses == {"ok", "unavailable", "error"}

InitRank ==
    /\ pc = "start"
    /\ data \in DataSets
    /\ ocr_status = None
    /\ results = None
    /\ IdleSanitize
    /\ IdleNaming
    /\ IdleApplication

ExtractText ==
    /\ pc = "start"
    /\ \E status \in OcrStatuses :
        /\ ocr_status' = status
        /\ results' = extract_text(data, status)
    /\ pc' = "extracted"
    /\ UNCHANGED <<data, sanitizeVars, namingVars, applicationVars>>

NextRank == ExtractText

SpecRank == InitRank /\ [][NextRank]_vars

-----------------------------------------------------------------------------
(* UIController, its operations called one after the other.                *)

\* what image_to_data reports for a frame: nothing, or "ABC123" at 92
FrameRows ==
    {<< >>,
     RowsOf(<<<<<<65, 66, 67, 49, 50, 51>>, 92>>>>)}

\* the frames the camera may hand back as its n-th
Frames(n) == {[shot |-> n, rows |-> rows] : rows \in FrameRows}

\* the user and content arguments of save_photo
SaveUsers == {UserKim, NotAString}
SaveContents == {ContentBolt}

InitController ==
    /\ pc = "constructed"
    /\ current_image = None
    /\ ocr_results = << >>
    /\ users = DefaultUsers
    /\ shots = 0
    /\ storage_calls = << >>
    /\ files = << >>
    /\ naming_calls = 0
    /\ returned = None
    /\ IdleSanitize
    /\ IdleNaming
    /\ IdleRank
    /\ IdleUsers
    /\ IdleWindow

CapturePhoto ==
    /\ \E frame \in {None} \cup (IF shots < MaxShots THEN Frames(shots + 1) ELSE {}) :
          capture_photo(frame)
    /\ pc' = "capture_photo"
    /\ UNCHANGED <<sanitizeVars, namingVars, rankVars, usersVars, windowVars>>

AnalyzeImageOcr ==
    /\ \E status \in OcrStatuses : analyze_image_ocr(status)
    /\ pc' = "analyze_image_ocr"
    /\ UNCHANGED <<sanitizeVars, namingVars, rankVars, usersVars, windowVars>>

SavePhoto ==
    /\ Len(storage_calls) < MaxSaves
    /\ naming_calls < 2 * MaxSaves
    /\ \E u \in SaveUsers, c \in SaveContents, ts \in Timestamps,
          outcome \in StorageOutcomes :
          /\ save_photo(u, c, ts, outcome)
          /\ user' = u
          /\ ocr_content' = c
    /\ pc' = "save_photo"
    /\ UNCHANGED <<valid, components, regenerated,
                   sanitizeVars, rankVars, usersVars, windowVars>>

NextController == CapturePhoto \/ AnalyzeImageOcr \/ SavePhoto

SpecController == InitController /\ [][NextController]_vars

-----------------------------------------------------------------------------
(* FileUtils.load_user_list and save_user_list on the files of a disk, and *)
(* the load_users of the controller's construction.                        *)

\* "user_list.txt": a path without a directory
BarePath == SubSeq(DefaultPath, 8, 20)

Paths == {DefaultPath, BarePath}

\* the files found on the disk: an empty one; "# c\n\n \n", comments and
\* blank lines only; " a \n#a\na\n"; "a\n#a\n" in a file that cannot be
\* read to its end
UserFiles ==
    {[text |-> EmptyStr, readable |-> TRUE],
     [text |-> <<35, 32, 99, 10, 10, 32, 10>>, readable |-> TRUE],
     [text |-> <<32, 97, 32, 10, 35, 97, 10, 97, 10>>, readable |-> TRUE],
     [text |-> <<97, 10, 35, 97, 10>>, readable |-> FALSE]}

\* the names handed to save_user_list: " a\t", " #a", "  ", "a\nb"
SaveNames == {<<32, 97, 9>>, <<32, 35, 97>>, <<32, 32>>, <<97, 10, 98>>}

NameLists == UNION {[1..n -> SaveNames] : n \in 0..MaxNames}

\* how many lines a read may get through before it fails
LinesRead(path) ==
    IF path \in DOMAIN fs THEN 0..Len(Lines(fs[path].text)) ELSE {0}

InitUsers ==
    /\ pc = "start"
    /\ fs \in UNION {[D -> UserFiles] : D \in SUBSET Paths}
    /\ resource \in Paths
    /\ names \in NameLists
    /\ write_status = "untried"
    /\ IdleSanitize
    /\ IdleNaming
    /\ IdleRank
    /\ IdleController
    /\ IdleWindow

\* save_user_list(names, resource)
SaveUserList ==
    /\ \E outcome \in WriteOutcomes :
          /\ write_user_list(names, resource, outcome)
          /\ returned' = Returned(save_user_list_returns(resource, outcome))
    /\ pc' = "save_user_list"
    /\ UNCHANGED <<names, resource, heldVars,
                   sanitizeVars, namingVars, rankVars, windowVars>>

\* load_user_list(resource)
LoadUserList ==
    /\ \E outcome \in WriteOutcomes :
          \E k \in LinesRead(resource) :
              /\ load_user_list_writes(resource, outcome)
              /\ returned' = Returned(load_user_list(resource, k))
    /\ pc' = "load_user_list"
    /\ UNCHANGED <<names, resource, heldVars,
                   sanitizeVars, namingVars, rankVars, windowVars>>

\* UIController.load_users, which __init__ calls: the list of the default
\* path, or ["기본사용자"] when the import of FileUtils raises
LoadUsers ==
    /\ pc = "start"
    /\ \E imported \in BOOLEAN, outcome \in WriteOutcomes :
          \E k \in LinesRead(DefaultPath) :
              IF imported
              THEN /\ load_user_list_writes(DefaultPath, outcome)
                   /\ users' = load_user_list(DefaultPath, k)
              ELSE /\ users' = FallbackUsers
                   /\ UNCHANGED <<fs, write_status>>
    /\ returned' = Returned(users')
    /\ pc' = "load_users"
    /\ UNCHANGED <<names, resource, current_image, ocr_results, shots, storage_calls, files,
                   naming_calls, sanitizeVars, namingVars, rankVars, windowVars>>

NextUsers == SaveUserList \/ LoadUserList \/ LoadUsers

SpecUsers == InitUsers /\ [][NextUsers]_vars

-----------------------------------------------------------------------------
(* MainWindow: the clicks and the typing of the operator, handled from the *)
(* event loop and from the processEvents of a capture_photo in progress.   *)

\* what the operator types into the text field: "M8"
TypedTexts == {<<77, 56>>}

\* what DropboxLocal.save_image comes to: it catches every exception
DropboxOutcomes == {"saved", "failed"}

\* a date is before another
Before(a, b) ==
    \/ a.year < b.year
    \/ a.year = b.year /\ a.month < b.month
    \/ a.year = b.year /\ a.month = b.month /\ a.day < b.day

\* the readings of datetime.now(), which does not go back
ClockReadings ==
    IF timestamp = None THEN Timestamps
    ELSE {ts \in Timestamps : ~Before(ts, timestamp)}

\* the strings of a list
Range(seq) == {seq[i] : i \in 1..Len(seq)}

InitWindow ==
    /\ pc = "constructed"
    /\ current_image = None
    /\ ocr_results = << >>
    /\ users = FallbackUsers
    /\ shots = 0
    /\ storage_calls = << >>
    /\ files = << >>
    /\ naming_calls = 0
    /\ returned = None
    /\ save_enabled = FALSE
    /\ text_edit = EmptyStr
    /\ result_list = << >>
    /\ stack = << >>
    /\ analyzed = None
    /\ IdleSanitize
    /\ IdleNaming
    /\ IdleRank
    /\ IdleUsers

\* a click on the capture button is handled
CaptureClicked ==
    /\ \E frame \in {None} \cup (IF shots < MaxShots /\ Len(stack) < MaxNesting
                                  THEN Frames(shots + 1) ELSE {}) :
          capture_photo_begins(frame)
    /\ pc' = "capture_clicked"
    /\ UNCHANGED <<sanitizeVars, namingVars, rankVars, usersVars>>

\* processEvents returns to the capture_photo that called it last
CaptureResumed ==
    /\ stack # << >>
    /\ \E status \in OcrStatuses : capture_photo_resumes(status)
    /\ pc' = "capture_resumed"
    /\ UNCHANGED <<sanitizeVars, namingVars, rankVars, usersVars>>

\* a click on the save button is handled; a button that is not enabled
\* takes no click
SaveClicked ==
    /\ save_enabled
    /\ Len(storage_calls) < MaxSaves
    /\ \E u \in Range(users), confirmed \in BOOLEAN, ts \in ClockReadings,
          outcome \in DropboxOutcomes :
          window_save_photo(u, confirmed, ts, outcome)
    /\ pc' = "save_clicked"
    /\ UNCHANGED <<valid, components, regenerated,
                   sanitizeVars, rankVars, usersVars>>

\* the operator types into the text field
TextTyped ==
    /\ \E t \in TypedTexts : text_edit' = t
    /\ pc' = "text_typed"
    /\ UNCHANGED <<controllerVars, save_enabled, result_list, stack, analyzed,
                   sanitizeVars, namingVars, rankVars, usersVars>>

\* OCRResultWidget.on_result_selected: a click on an item of the list
ResultSelected ==
    /\ \E i \in 1..Len(result_list) :
          text_edit' = IF actual_text(result_list[i]) = None THEN text_edit
                       ELSE actual_text(result_list[i])
    /\ pc' = "result_selected"
    /\ UNCHANGED <<controllerVars, save_enabled, result_list, stack, analyzed,
                   sanitizeVars, namingVars, rankVars, usersVars>>

NextWindow ==
    CaptureClicked \/ CaptureResumed \/ SaveClicked \/ TextTyped \/ ResultSelected

SpecWindow == InitWindow /\ [][NextWindow]_vars

-----------------------------------------------------------------------------
(* UIController.save_photo on the user and the content an operator may     *)
(* give it: one capture, then the save.                                    *)

\* "/", a backslash, "..", "a", " "
PathPieces == {<<47>>, <<92>>, <<46, 46>>, <<97>>, Space}

InitPath ==
    /\ pc = "constructed"
    /\ user \in StringsOf(PathPieces, MaxUserParts)
    /\ ocr_content \in StringsOf(PathPieces, MaxContentParts)
    /\ timestamp = None
    /\ filename = None
    /\ valid = None
    /\ components = None
    /\ regenerated = None
    /\ current_image = None
    /\ ocr_results = << >>
    /\ users = DefaultUsers
    /\ shots = 0
    /\ storage_calls = << >>
    /\ files = << >>
    /\ naming_calls = 0
    /\ returned = None
    /\ IdleSanitize
    /\ IdleRank
    /\ IdleUsers
    /\ IdleWindow

\* capture_photo until an image is held
CaptureFirstPhoto ==
    /\ current_image = None
    /\ \E frame \in {None} \cup Frames(shots + 1) : capture_photo(frame)
    /\ pc' = "capture_photo"
    /\ UNCHANGED <<sanitizeVars, namingVars, rankVars, usersVars, windowVars>>

\* save_photo(user, ocr_content) until save_image has been called
SaveGivenPhoto ==
    /\ storage_calls = << >>
    /\ \E ts \in Timestamps, outcome \in StorageOutcomes :
          save_photo(user, ocr_content, ts, outcome)
    /\ pc' = "save_photo"
    /\ UNCHANGED <<user, ocr_content, valid, components, regenerated,
                   sanitizeVars, rankVars, usersVars, windowVars>>

NextPath == CaptureFirstPhoto \/ SaveGivenPhoto

SpecPath == InitPath /\ [][NextPath]_vars

-----------------------------------------------------------------------------
(* Properties of the naming engine.                                        *)

\* validate_filename, parse_filename and the second generate_filename have run
Validated == pc \in {"validated", "parsed", "regenerated"}
Parsed == pc \in {"parsed", "regenerated"}
Generated == pc \in {"generated", "validated", "parsed", "regenerated"}

\* sanitize_text(user) holds no underscore
UserSplits == ~Contains(sanitize_text(user), Underscore)

\* C1: every filename generate_filename returns passes validate_filename,
\* whatever the user, the content and the timestamp, a user name longer than
\* 255 characters included.
C1_GeneratedFilenameIsValid == Validated => valid = TRUE

\* C2: when sanitize_text(user) holds no underscore, parse_filename gives
\* back, from the generated filename, the sanitized user, the sanitized
\* content cut to 50 characters, the date as YYMMDD, the prefix and "jpg",
\* also when the content holds underscores, ".jpg" or ".JPG".
C2_ParseRecoversComponents ==
    (Parsed /\ UserSplits) =>
        /\ components # None
        /\ components.prefix = Prefix
        /\ components.date_str = strftime_yymmdd(timestamp)
        /\ components.user = sanitize_text(user)
        /\ components.content = Prefixed(sanitize_text(ocr_content), max_content_length)
        /\ components.extension = JpgExtension

\* C3: when sanitize_text(user) holds no underscore, generating again from
\* the parsed user and content gives the same filename, also when the cut
\* at 50 characters leaves the content with a trailing space.
C3_RegenerationRoundTrips ==
    (pc = "regenerated" /\ UserSplits) => regenerated = filename

\* what C3 says of the contents it names: those cut so that a trailing space
\* is left, with no ".jpg" or ".JPG" in the user or the content
C3_CutLeavingTrailingSpace ==
    /\ pc = "regenerated"
    /\ UserSplits
    /\ ~Contains(user, DotJpgLower)
    /\ ~Contains(ocr_content, DotJpgLower)
    /\ ~Contains(ocr_content, DotJpgUpper)
    /\ Len(sanitize_text(ocr_content)) > max_content_length
    /\ sanitize_text(ocr_content)[max_content_length] = 32
    => regenerated = filename

\* C7: the filename is prefix, "_", YYMMDD, "_", the sanitized user, "_",
\* the sanitized content cut to its first 50 characters, ".jpg": the content
\* is cut after it is sanitized, the user is never cut, the extension is
\* lower case; ("김철수", "볼트 M8", 2024-12-05) gives
\* "03.물품사진_241205_김철수_볼트 M8.jpg".
C7_FilenameFormat ==
    Generated =>
        /\ filename = Prefix \o Underscore \o strftime_yymmdd(timestamp)
                        \o Underscore \o sanitize_text(user) \o Underscore
                        \o Prefixed(sanitize_text(ocr_content), max_content_length)
                        \o DotJpgLower
        /\ (/\ user = UserKim
            /\ ocr_content = ContentBolt
            /\ timestamp = [year |-> 2024, month |-> 12, day |-> 5])
           => filename = Prefix \o <<95, 50, 52, 49, 50, 48, 53, 95>> \o UserKim
                            \o Underscore \o ContentBolt \o DotJpgLower

\* C7 with a user longer than the content limit and a content that is cut
\* right after a space
C7_CutContentWitness ==
    /\ Generated
    /\ Len(sanitize_text(ocr_content)) > max_content_length
    /\ Len(sanitize_text(user)) > max_content_length
    /\ filename[Len(filename) - Len(DotJpgLower)] = 32

-----------------------------------------------------------------------------
(* Properties of sanitize_text.                                            *)

Sanitized == pc \in {"sanitized", "resanitized"}

\* what remains of a text after the forbidden characters are removed and
\* the ends are trimmed
Remaining(t) == Strip(RemoveForbidden(t))

\* a character that is neither removed nor whitespace
Solid(ch) == ~IsSpace(ch) /\ ~IsForbiddenChar(ch)

\* C4: sanitize_text is idempotent.
C4_SanitizeIdempotent == pc = "resanitized" => resanitized = sanitized

\* C4 on a text that sanitize_text changes: a forbidden character between
\* spaces
C4_ChangedTextWitness ==
    /\ pc = "resanitized"
    /\ Contains(text, <<32, 63, 32>>)
    /\ sanitized # Unknown
    /\ sanitized # text

\* C5 as stated: the result is never empty, holds no forbidden character,
\* and is "Unknown" exactly when nothing remains after removal and trimming.
C5_UnknownOnlyWhenNothingRemains ==
    Sanitized =>
        /\ sanitized # EmptyStr
        /\ \A i \in 1..Len(sanitized) : ~IsForbiddenChar(sanitized[i])
        /\ sanitized = Unknown <=> Remaining(text) = EmptyStr

\* C5, amended: the result is never empty, holds no forbidden character, and
\* is "Unknown" exactly when nothing remains after removal and trimming or
\* what remains is the text "Unknown" itself.
C5_SanitizeTotalAndSafe ==
    Sanitized =>
        /\ sanitized # EmptyStr
        /\ \A i \in 1..Len(sanitized) : ~IsForbiddenChar(sanitized[i])
        /\ sanitized = Unknown <=> Remaining(text) \in {EmptyStr, Unknown}

\* C5 on a text of forbidden characters and whitespace only
C5_FallbackWitness ==
    /\ Sanitized
    /\ text # EmptyStr
    /\ \E i \in 1..Len(text) : IsForbiddenChar(text[i])
    /\ \E i \in 1..Len(text) : IsSpace(text[i])
    /\ Remaining(text) = EmptyStr
    /\ sanitized = Unknown

\* the index in s of its r-th character that is not whitespace, 0 if none
NthSolid(s, r) ==
    LET at == {p \in 1..Len(s) :
                 /\ ~IsSpace(s[p])
                 /\ Cardinality({q \in 1..p : ~IsSpace(s[q])}) = r}
    IN  IF at = {} THEN 0 ELSE CHOOSE p \in at : TRUE

\* C6: two characters that are kept and that a run of whitespace (spaces, a
\* tab, a mix) separates in the text are separated by exactly one space in
\* the result, and the result has no leading or trailing space.
C6_WhitespaceRunBecomesOneSpace ==
    Sanitized =>
        /\ sanitized[1] # 32
        /\ sanitized[Len(sanitized)] # 32
        /\ \A i, j \in 1..Len(text) :
            (/\ i + 1 < j
             /\ Solid(text[i])
             /\ Solid(text[j])
             /\ \A k \in (i + 1)..(j - 1) : IsSpace(text[k]))
            => LET p == NthSolid(sanitized,
                            Cardinality({q \in 1..i : Solid(text[q])}))
               IN  /\ p >= 1
                   /\ p + 2 <= Len(sanitized)
                   /\ sanitized[p] = text[i]
                   /\ sanitized[p + 1] = 32
                   /\ sanitized[p + 2] = text[j]

-----------------------------------------------------------------------------
(* Properties of the ranking of extract_text.                              *)

\* extract_text ran its loop, its insert and its sort
Ranked == pc = "extracted" /\ ocr_status = "ok"

\* the rows whose trimmed text is not empty and whose confidence is above
\* the floor
KeptAt == {i \in 1..Len(data) :
             Strip(data[i].text) # EmptyStr /\ data[i].conf > ConfidenceFloor}

\* the results of single rows, and the result for the whole text
OfRow(r) == r.bbox # << >>
Aggregates == {j \in 1..Len(results) : results[j].bbox = << >>}

\* the indices of KeptAt in increasing order
KeptOrder == SelectSeq([i \in 1..Len(data) |-> i], LAMBDA i : i \in KeptAt)

C9_Aggregate ==
    (Ranked /\ KeptAt # {}) =>
        /\ Cardinality(Aggregates) = 1
        /\ \A j \in Aggregates :
            /\ results[j].text =
                  Join([n \in 1..Len(KeptOrder) |-> Strip(data[KeptOrder[n]].text)],
                       Space)
            /\ results[j].confidence.den >= 1
            /\ results[j].confidence.num * Cardinality(KeptAt) =
                  Sum([n \in 1..Len(KeptOrder) |-> data[KeptOrder[n]].conf])
                     * results[j].confidence.den
            /\ (/\ Len(KeptOrder) = 2
                /\ Strip(data[KeptOrder[1]].text) = <<65, 66, 67, 49, 50, 51>>
                /\ data[KeptOrder[1]].conf = 92
                /\ Strip(data[KeptOrder[2]].text) = <<119, 114, 101, 110, 99, 104>>
                /\ data[KeptOrder[2]].conf = 45)
               => /\ results[j].text = <<65, 66, 67, 49, 50, 51, 32,
                                          119, 114, 101, 110, 99, 104>>
                  /\ results[j].confidence = [num |-> 137, den |-> 2]

\* C9 on ("ABC123", 92), (" wrench ", 45) and a row that is not kept
C9_ExampleWitness ==
    /\ Ranked
    /\ Len(data) = 3
    /\ KeptAt = {1, 2}
    /\ data[1].conf = 92
    /\ data[2].conf = 45
    /\ data[2].text # Strip(data[2].text)
    /\ \E j \in 1..Len(results) :
          results[j] = [text |-> <<65, 66, 67, 49, 50, 51, 32,
                                   119, 114, 101, 110, 99, 104>>,
                        confidence |-> [num |-> 137, den |-> 2],
                        bbox |-> << >>]

\* the row a result was made from
RowOf(r) == CHOOSE i \in 1..Len(data) : data[i].bbox = r.bbox

\* C10: the list is ordered by confidence, highest first; results of rows
\* with equal confidence are in the order of their rows, and the result for
\* the whole text comes before every result of a row with its confidence.
C10_StableOrder ==
    Ranked =>
        \A i, j \in 1..Len(results) :
            i < j =>
                /\ ~Less(results[i].confidence, results[j].confidence)
                /\ results[i].confidence = results[j].confidence =>
                      /\ OfRow(results[i])
                            => OfRow(results[j])
                                  /\ RowOf(results[i]) < RowOf(results[j])

\* C10 on two kept rows of one confidence, which is then the mean too
C10_TiesWitness ==
    /\ Ranked
    /\ Len(results) = 3
    /\ results[1].confidence = results[3].confidence
    /\ results[2].text # results[3].text
    /\ ~OfRow(results[1])

\* C11: the list rank returns is de-duplicated: no two of its candidates have
\* the same text, also when two rows have the same text and when exactly one
\* row is kept, so that the text of the whole is the text of that row.
C11_NoTwoCandidatesShareText ==
    Ranked =>
        \A i, j \in 1..Len(results) :
            i # j => results[i].text # results[j].text

-----------------------------------------------------------------------------
(* Properties of UIController.save_photo.                                  *)

\* C12: save_photo with no image held returns False, calls neither
\* save_image nor the filename strategy, and leaves the controller as it was.
C12_NoImageNoSave ==
    [][(pc' = "save_photo" /\ current_image = None)
          => (returned' = Returned(FALSE) /\ UNCHANGED heldVars)]_vars

\* C12 after a capture that failed: still no image, and save_photo has
\* returned False with nothing asked of the strategies
C12_RefusedWitness ==
    /\ pc = "save_photo"
    /\ current_image = None
    /\ shots = 0
    /\ returned = Returned(FALSE)
    /\ user = UserKim
    /\ naming_calls = 0
    /\ storage_calls = << >>

\* "YY년 MM월/" of a timestamp, written out
FolderAndSlash(ts) ==
    <<48 + ((ts.year % 100) \div 10), 48 + (ts.year % 10), 45380, 32,
      48 + (ts.month \div 10), 48 + (ts.month % 10), 50900, 47>>

\* C13: with an image held and str arguments, save_photo calls save_image
\* exactly once, with the current image and the path "YY년 MM월" + "/" +
\* generate_filename(user, content, ts), folder and filename from the one
\* timestamp, so that the folder's YY and MM are the first four digits of the
\* filename's date; it returns True exactly when the StorageResult says
\* success.
C13_OneSaveAtThePath ==
    [][(/\ pc' = "save_photo"
        /\ current_image # None
        /\ IsStr(user')
        /\ IsStr(ocr_content'))
          => LET call == storage_calls'[Len(storage_calls')]
                 name == generate_filename(user', ocr_content', timestamp')
                 date == Len(Prefix) + 1
             IN  /\ Len(storage_calls') = Len(storage_calls) + 1
                 /\ SubSeq(storage_calls', 1, Len(storage_calls)) = storage_calls
                 /\ call.image = current_image
                 /\ call.file_path = FolderAndSlash(timestamp') \o name
                 /\ SubSeq(call.file_path, 1, 2) = SubSeq(name, date + 1, date + 2)
                 /\ SubSeq(call.file_path, 5, 6) = SubSeq(name, date + 3, date + 4)
                 /\ returned' \in {Returned(TRUE), Returned(FALSE)}
                 /\ returned' = Returned(TRUE)
                       <=> (call.result # None /\ call.result.success)]_vars

\* C13 on the last day of a month: the image is on disk at the path, and
\* save_photo returned True
C13_MonthEndWitness ==
    /\ pc = "save_photo"
    /\ current_image # None
    /\ timestamp # None
    /\ timestamp.day = 31
    /\ returned = Returned(TRUE)
    /\ Len(storage_calls) = 1
    /\ storage_calls[1].file_path \in DOMAIN files
    /\ files[storage_calls[1].file_path] = current_image

\* C14: no exception of the filename strategy or of the storage strategy
\* leaves save_photo: it returns False, the image held stays held and the
\* controller's other fields stay as they were.
C14_ExceptionBecomesFalse ==
    [][(/\ pc' = "save_photo"
        /\ current_image # None
        /\ \/ ~IsStr(user')
           \/ ~IsStr(ocr_content')
           \/ /\ Len(storage_calls') > Len(storage_calls)
              /\ LastResult(storage_calls') = None)
          => /\ returned' = Returned(FALSE)
             /\ UNCHANGED <<current_image, ocr_results, users, shots, files>>]_vars

\* C14 on a save_image that raised, followed by a save_photo of the same
\* image that succeeded
C14_SaveAfterExceptionWitness ==
    /\ pc = "save_photo"
    /\ Len(storage_calls) = 2
    /\ storage_calls[1].result = None
    /\ storage_calls[2].result # None
    /\ storage_calls[2].result.success
    /\ storage_calls[1].image = storage_calls[2].image
    /\ returned = Returned(TRUE)

-----------------------------------------------------------------------------
(* Properties of the user list.                                            *)

\* the write of the step did not fail at open or in a write
DiskAllowed == write_status \notin {"open_fails", "write_fails"}

\* C15: load_user_list on a path where no file is, with a directory in the
\* path or without, creates the file with the four default names and returns
\* them in order; the next load of the path returns the same four names.
C15_MissingFileIsCreated ==
    [][/\ (/\ pc' = "load_user_list"
            /\ resource \notin DOMAIN fs
            /\ DiskAllowed')
          => /\ returned' = Returned(DefaultUsers)
             /\ resource \in DOMAIN fs'
             /\ ReadUsers(Lines(fs'[resource].text)) = DefaultUsers
       /\ (/\ pc = "load_user_list"
            /\ pc' = "load_user_list"
            /\ returned = Returned(DefaultUsers))
          => returned' = returned]_vars

\* every line of the text is empty once trimmed, or a comment
OnlyCommentsAndBlanks(t) ==
    \A k \in 1..Len(Lines(t)) :
        LET line == Strip(Lines(t)[k]) IN line = EmptyStr \/ line[1] = 35

\* C16: load_user_list returns at least one name whatever the file: missing,
\* empty, of comments and blank lines only, or unreadable, the last three
\* giving exactly ["기본사용자"], names read before the failure dropped; and
\* after the controller's construction its users are not empty.
C16_UserListNeverEmpty ==
    [][/\ pc' = "load_user_list"
          => /\ Len(returned'.value) >= 1
             /\ (/\ resource \in DOMAIN fs
                  /\ \/ ~fs[resource].readable
                     \/ OnlyCommentsAndBlanks(fs[resource].text))
                => returned' = Returned(FallbackUsers)
       /\ pc' = "load_users" => Len(users') >= 1]_vars

\* C16 on a file with names in it that cannot be read to its end
C16_UnreadableWitness ==
    /\ pc = "load_user_list"
    /\ resource \in DOMAIN fs
    /\ ~fs[resource].readable
    /\ ReadUsers(Lines(fs[resource].text)) # << >>
    /\ returned = Returned(FallbackUsers)

\* of a list of strings, trimmed: those that are not empty and do not start
\* with "#", or ["기본사용자"] if there is none
Survivors(ss) ==
    LET kept == SelectSeq([i \in 1..Len(ss) |-> Strip(ss[i])],
                          LAMBDA u : u # EmptyStr /\ u[1] # 35)
    IN  IF kept = << >> THEN FallbackUsers ELSE kept

\* save_user_list returns a bool, False when the write failed
SaveReturnsBool ==
    pc' = "save_user_list"
       => /\ returned' \in {Returned(TRUE), Returned(FALSE)}
          /\ ~DiskAllowed' => returned' = Returned(FALSE)

\* C17 as stated: after a save_user_list that returned True, load_user_list
\* of the same path returns the saved names, trimmed, in their order,
\* duplicates kept, without those that are blank or start with "#" once
\* trimmed, and ["기본사용자"] if none is left; save_user_list never raises
\* and returns False when the write fails.
C17_LoadReturnsSavedNames ==
    [][/\ (/\ pc = "save_user_list"
            /\ returned = Returned(TRUE)
            /\ pc' = "load_user_list")
          => returned' = Returned(Survivors(names))
       /\ SaveReturnsBool]_vars

\* the lines of every name of a list, in order
RECURSIVE LinesOfAll(_)
LinesOfAll(ss) ==
    IF ss = << >> THEN << >> ELSE Lines(Head(ss)) \o LinesOfAll(Tail(ss))

\* C17, amended: the load returns the lines of the saved names, a name
\* holding a line break counting as the lines the break cuts it into,
\* trimmed, in their order, duplicates kept, without those that are blank or
\* start with "#" once trimmed, and ["기본사용자"] if none is left;
\* save_user_list never raises and returns False when the write fails.
C17_LoadReturnsSavedLines ==
    [][/\ (/\ pc = "save_user_list"
            /\ returned = Returned(TRUE)
            /\ pc' = "load_user_list")
          => returned' = Returned(Survivors(LinesOfAll(names)))
       /\ SaveReturnsBool]_vars

\* C17 on the saved names " #a" and "a\nb": the file holds the header and
\* the names, and the load has returned "a" and "b"
C17_SavedThenLoadedWitness ==
    /\ pc = "load_user_list"
    /\ names = <<<<32, 35, 97>>, <<97, 10, 98>>>>
    /\ resource \in DOMAIN fs
    /\ fs[resource].text = FileText(names)
    /\ returned = Returned(<<<<97>>, <<98>>>>)

-----------------------------------------------------------------------------
(* Properties of validate_filename and parse_filename on any filename.     *)

\* C18: validate_filename is true exactly when the name is not empty, has at
\* most 255 characters, holds none of < > : " / \ | ? * and no control
\* character 0x00-0x1F, and ends with ".jpg" in any case: ".JPG" is accepted,
\* 256 characters or a "?" are rejected.
C18_ValidExactlyWhen ==
    Validated =>
        LET n == Len(filename)
        IN  valid = TRUE <=>
               /\ n >= 1
               /\ n <= 255
               /\ \A i \in 1..n :
                     /\ filename[i] \notin {60, 62, 58, 34, 47, 92, 124, 63, 42}
                     /\ filename[i] \notin 0..31
               /\ n >= 4
               /\ filename[n - 3] = 46
               /\ filename[n - 2] \in {106, 74}
               /\ filename[n - 1] \in {112, 80}
               /\ filename[n] \in {103, 71}

\* C18 on a name of 255 characters that ends with ".JPG"
C18_LongestUpperCaseWitness ==
    /\ Validated
    /\ Len(filename) = MaxFilenameLength
    /\ EndsWith(filename, DotJpgUpper)
    /\ valid = TRUE

\* a name without its trailing ".jpg" or ".JPG"
Stem(name) ==
    IF EndsWith(name, DotJpgLower) \/ EndsWith(name, DotJpgUpper)
    THEN SubSeq(name, 1, Len(name) - Len(DotJpgLower))
    ELSE name

\* the name, but for a trailing ".jpg" or ".JPG", is a prefix, "_", exactly
\* six digits, "_", a user that is not empty and holds no underscore, "_",
\* and a content that is not empty
Fits(name) ==
    LET t == Stem(name)
    IN  \E p \in 0..Len(t) :
            /\ p + 8 <= Len(t)
            /\ t[p + 1] = 95
            /\ \A i \in (p + 2)..(p + 7) : IsDigit(t[i])
            /\ t[p + 8] = 95
            /\ \E q \in (p + 10)..(Len(t) - 1) :
                  /\ t[q] = 95
                  /\ \A i \in (p + 9)..(q - 1) : t[i] # 95

\* C19: parse_filename returns None, and does not raise, for every name that
\* is not a prefix, "_", exactly six digits, "_", a non-empty user without an
\* underscore, "_" and a non-empty content; when it returns components,
\* their user is not empty and holds no underscore and their date_str is
\* exactly six digits.
C19_MalformedGivesNone ==
    Parsed =>
        /\ ~Fits(filename) => components = None
        /\ components # None =>
              /\ components.user # EmptyStr
              /\ \A i \in 1..Len(components.user) : components.user[i] # 95
              /\ Len(components.date_str) = 6
              /\ \A i \in 1..6 : IsDigit(components.date_str[i])

-----------------------------------------------------------------------------
(* Properties of MainWindow.                                               *)

\* C20: the handlers of the capture and save buttons run one at a time:
\* while a capture_photo of MainWindow has begun and not returned, no save
\* and no other capture is handled, and so the image a save hands to the
\* storage is the one the text on offer was analysed from.
C20_OneHandlerAtATime ==
    [][/\ stack # << >> => pc' \notin {"capture_clicked", "save_clicked"}
       /\ (pc' = "save_clicked" /\ Len(storage_calls') > Len(storage_calls))
            => storage_calls'[Len(storage_calls')].image = analyzed]_vars

-----------------------------------------------------------------------------
(* Properties of the photos on disk.                                       *)

\* a save_image call that wrote its image
Succeeded(call) == call.result # None /\ call.result.success

\* C21: a successful save never overwrites a photo saved before: any two
\* successful saves of different captured images went to different
\* relative paths, also on one day with one user and one content.
C21_SavesNeverOverwrite ==
    \A i \in 1..Len(storage_calls) : \A j \in 1..Len(storage_calls) :
        (/\ i < j
         /\ Succeeded(storage_calls[i])
         /\ Succeeded(storage_calls[j])
         /\ storage_calls[i].image # storage_calls[j].image)
        => storage_calls[i].file_path # storage_calls[j].file_path

\* C22: the text on offer right after a capture of MainWindow completes
\* comes from that capture's OCR results: it is the text of the first
\* candidate, or empty when OCR gave no candidate, never the text an earlier
\* capture left in the field.  Text the operator typed while the capture
\* was in progress is set aside.
C22_TextIsOfThisCapture ==
    [][(pc' = "capture_resumed" /\ text_edit \notin TypedTexts)
       => text_edit' = IF ocr_results' # << >> THEN ocr_results'[1].text
                       ELSE EmptyStr]_vars

\* a step in which a save_image call was made and wrote its image
SavedInStep ==
    /\ Len(storage_calls') > Len(storage_calls)
    /\ Succeeded(storage_calls'[Len(storage_calls')])

\* the images successful saves have written so far
SavedImages ==
    {storage_calls[i].image :
        i \in {k \in 1..Len(storage_calls) : Succeeded(storage_calls[k])}}

\* C23: the save button of MainWindow is enabled only while the controller
\* holds an image; it becomes enabled only when a successful capture
\* completes, is disabled only by a successful save, which always disables
\* it, and so every successful save writes an image captured since the
\* successful save before it.
C23_SaveButtonFollowsCapture ==
    [][/\ save_enabled' => current_image' # None
       /\ (~save_enabled /\ save_enabled')
            => (pc' = "capture_resumed" /\ current_image' # None)
       /\ (save_enabled /\ ~save_enabled') => SavedInStep
       /\ SavedInStep
            => (/\ ~save_enabled'
                /\ storage_calls'[Len(storage_calls')].image
                       \notin SavedImages)]_vars

\* the places of character ch in string p
PlacesOf(ch, p) == {k \in 1..Len(p) : p[k] = ch}

\* C24: the text of the operator cannot change the directory of a photo:
\* whatever the user and the content, the relative path save_photo hands to
\* the storage holds exactly one "/", right after the "YY년 MM월" folder
\* name, and no backslash.
C24_OneSeparatorInPath ==
    \A i \in 1..Len(storage_calls) :
        LET p == storage_calls[i].file_path
        IN  /\ PlacesOf(47, p) = {Len(generate_folder_name(timestamp)) + 1}
            /\ PlacesOf(92, p) = {}
            /\ SubSeq(p, 1, Len(generate_folder_name(timestamp)))
                  = generate_folder_name(timestamp)

\* C24 where the operator gave a backslash for the user and "../" for the
\* content, and the photo was written
C24_SeparatorsGivenWitness ==
    /\ pc = "save_photo"
    /\ user = <<92>>
    /\ ocr_content = <<46, 46, 47>>
    /\ storage_calls # << >>
    /\ Succeeded(storage_calls[1])
    /\ storage_calls[1].file_path \in DOMAIN files

====
